---- MODULE Spec2Model ----
\* A model of the js-util repository: the EventDispatcher (publish/subscribe),
\* pad, stringFormat and the tagged Logger.
\*
\* JavaScript values are records [t |-> typeof, v |-> text], where v is the
\* value's string representation (what ToString / ToPropertyKey gives).
\* Strings that the program scans (pad, stringFormat) are sequences of
\* one-character strings.
EXTENDS Integers, Sequences, FiniteSets, TLC

VARIABLES
    eventSubscribers,   \* EventDispatcher: own properties of the dictionary
    stack,              \* activations of trigger that have not returned yet
    last,               \* the call or step that was made last, and its outcome
    calls,              \* calls made by callbacks since the outermost trigger began
    subscribedOrder,    \* history: <<key, callback, rank>> of current subscriptions
    padCall,            \* pad: the arguments of the call
    padResult,          \* pad: what the call returned or raised
    fmtCall,            \* stringFormat: the arguments of the call
    fmtResult,          \* stringFormat: what the call returned or raised
    logger,             \* Logger: the fields of the instance
    logged              \* Logger: the method called last and what it did

dvars == <<eventSubscribers, stack, last, calls, subscribedOrder>>

pvars == <<padCall, padResult>>

fvars == <<fmtCall, fmtResult>>

lvars == <<logger, logged>>

vars == <<dvars, pvars, fvars, lvars>>

\* ------------------------------------------------------------------ bounds

\* most calls of the dispatcher that the callbacks of one outermost trigger
\* make (a nested trigger is one of them, so it bounds the nesting too)
MaxCalls == 2

\* longest string given to pad
MaxStrLen == 3

\* largest desiredLength given to pad
MaxDesired == 4

\* most pieces (a character or a placeholder) of a format string
MaxPieces == 3

\* most data arguments given to stringFormat
MaxData == 2

\* most arguments given to a Logger method
MaxMessages == 2

\* ------------------------------------------------------------ JS values

Str(s) == [t |-> "string", v |-> s]

Num(s) == [t |-> "number", v |-> s]

Fn(s) == [t |-> "function", v |-> s]

Obj(s) == [t |-> "object", v |-> s]

Arr(s) == [t |-> "array", v |-> s]

Undefined == [t |-> "undefined", v |-> "undefined"]

\* ToBoolean, as `||` applies it
Truthy(x) ==
    CASE x.t = "undefined" -> FALSE
      [] x.t = "number" -> x.v \notin {"0", "NaN"}
      [] x.t = "string" -> x.v # ""
      [] OTHER -> TRUE

\* the inputs the environment calls the dispatcher with
EventNames == {Str("e"), Num("42"), Str("constructor")}

Callbacks == {Fn("A"), Fn("B"), Fn("C")}

CallbackValues == Callbacks \cup {Num("123")}

Contexts == {Undefined, Obj("ctx"), Num("0")}

DataValues == {Num("5"), Arr("1,2")}

\* what a callback passes when it calls trigger itself
NestedData == {Num("5")}

NestedContexts == {Undefined}

\* the elements of the array values of DataValues
ArrayItems(d) == IF d.v = "1,2" THEN <<Num("1"), Num("2")>> ELSE <<>>

\* ------------------------------------------------------ EventDispatcher

\* `self = this`: the dispatcher instance
Self == Obj("self")

\* `eventSubscribers = {}`: an object literal inherits Object.prototype, so a
\* lookup of one of these keys finds a function (with its `length`) and not
\* undefined. Two of the inherited properties are modelled.
ObjectPrototype == [constructor |-> 1, toString |-> 0]

\* eventSubscribers[eventName]: own property first, then the prototype
Lookup(es, key) ==
    IF key \in DOMAIN es THEN [kind |-> "array", length |-> Len(es[key])]
    ELSE IF key \in DOMAIN ObjectPrototype
         THEN [kind |-> "function", length |-> ObjectPrototype[key]]
         ELSE [kind |-> "undefined", length |-> 0]

\* subscribers[i] (0-based) of the value found under key
Element(es, key, i) ==
    IF key \in DOMAIN es /\ i < Len(es[key]) THEN es[key][i + 1] ELSE Undefined

\* Array.prototype.indexOf, 0-based, -1 when absent
IndexOf(list, x) ==
    IF \E j \in 1..Len(list) : list[j] = x
    THEN (CHOOSE j \in 1..Len(list) : list[j] = x /\ \A h \in 1..(j - 1) : list[h] # x) - 1
    ELSE -1

\* Array.prototype.splice(index, 1)
Splice1(list, index) ==
    [j \in 1..(Len(list) - 1) |-> IF j <= index THEN list[j] ELSE list[j + 1]]

\* eventSubscribers[key] = list
Put(es, key, list) ==
    [k \in (DOMAIN es) \cup {key} |-> IF k = key THEN list ELSE es[k]]

\* data = (data instanceof Array) ? data : [data]
Arguments(data) == IF data.t = "array" THEN ArrayItems(data) ELSE <<data>>

\* context = context || self
BoundContext(context) == IF Truthy(context) THEN context ELSE Self

\* subscribe with the duplicate test left out
SubscribeNoDedupe(es, eventName, callback) ==
    IF eventName.t # "string" \/ callback.t # "function"
    THEN [err |-> "TypeError", es |-> es, found |-> FALSE]
    ELSE LET key == eventName.v
             sub == Lookup(es, key)
             es1 == IF sub.kind = "undefined" THEN Put(es, key, <<>>) ELSE es
         IN  IF sub.kind = "function"
             THEN [err |-> "TypeError", es |-> es, found |-> FALSE]
             ELSE [err |-> "none", es |-> Put(es1, key, Append(es1[key], callback)),
                   found |-> IndexOf(es1[key], callback) > -1]

\* subscribe adding the callback at the front of the list
SubscribeUnshift(es, eventName, callback) ==
    IF eventName.t # "string" \/ callback.t # "function"
    THEN [err |-> "TypeError", es |-> es, found |-> FALSE]
    ELSE LET key == eventName.v
             sub == Lookup(es, key)
             es1 == IF sub.kind = "undefined" THEN Put(es, key, <<>>) ELSE es
         IN  IF sub.kind = "function"
             THEN [err |-> "TypeError", es |-> es, found |-> FALSE]
             ELSE IF IndexOf(es1[key], callback) > -1
             THEN [err |-> "none", es |-> es1, found |-> TRUE]
             ELSE [err |-> "none", es |-> Put(es1, key, <<callback>> \o es1[key]),
                   found |-> FALSE]

\* subscribe with the test of the callback's type left out
SubscribeNoCallbackCheck(es, eventName, callback) ==
    IF eventName.t # "string"
    THEN [err |-> "TypeError", es |-> es, found |-> FALSE]
    ELSE LET key == eventName.v
             sub == Lookup(es, key)
             es1 == IF sub.kind = "undefined" THEN Put(es, key, <<>>) ELSE es
         IN  IF sub.kind = "function"
             THEN [err |-> "TypeError", es |-> es, found |-> FALSE]
             ELSE IF IndexOf(es1[key], callback) > -1
             THEN [err |-> "none", es |-> es1, found |-> TRUE]
             ELSE [err |-> "none", es |-> Put(es1, key, Append(es1[key], callback)),
                   found |-> FALSE]

\* subscribe(eventName, callback): the error it raises ("none" when it
\* returns), the dictionary it leaves, and whether it found the callback
\* already subscribed. A value found under the key that is no array (an
\* inherited function) has no indexOf: calling it raises a TypeError.
SubscribeEffect(es, eventName, callback) ==
    IF eventName.t # "string"
    THEN [err |-> "TypeError", es |-> es, found |-> FALSE]
    ELSE IF callback.t # "function"
    THEN [err |-> "TypeError", es |-> es, found |-> FALSE]
    ELSE LET key == eventName.v
             sub == Lookup(es, key)
             es1 == IF sub.kind = "undefined" THEN Put(es, key, <<>>) ELSE es
         IN  IF sub.kind = "function"
             THEN [err |-> "TypeError", es |-> es, found |-> FALSE]
             ELSE IF IndexOf(es1[key], callback) > -1
             THEN [err |-> "none", es |-> es1, found |-> TRUE]
             ELSE [err |-> "none", es |-> Put(es1, key, Append(es1[key], callback)),
                   found |-> FALSE]

\* unsubscribe(eventName, existingCallback): the error it raises and the
\* dictionary it leaves; found tells whether a callback was removed.
UnsubscribeEffect(es, eventName, existingCallback) ==
    LET key == eventName.v
        sub == Lookup(es, key)
    IN  IF sub.kind = "undefined"
        THEN [err |-> "none", es |-> es, found |-> FALSE]
        ELSE IF sub.kind = "function"
        THEN [err |-> "TypeError", es |-> es, found |-> FALSE]
        ELSE LET index == IndexOf(es[key], existingCallback)
             IN  IF index > -1
                 THEN [err |-> "none", es |-> Put(es, key, Splice1(es[key], index)),
                       found |-> TRUE]
                 ELSE [err |-> "none", es |-> es, found |-> FALSE]

\* ---- activations of trigger

\* the activation trigger(eventName, data, context) starts with: the local
\* variables of trigger, and the history of this call (what it invoked, the
\* list when it started, what was unsubscribed from it meanwhile)
NewFrame(es, eventName, data, context) ==
    LET key == eventName.v
    IN  [key |-> key, i |-> 0, iMax |-> Lookup(es, key).length,
         context |-> context, this |-> BoundContext(context),
         args |-> Arguments(data),
         invoked |-> <<>>,
         start |-> IF key \in DOMAIN es THEN es[key] ELSE <<>>,
         removed |-> {}, mutated |-> FALSE, pc |-> "loop"]

Top == stack[Len(stack)]

Rest == SubSeq(stack, 1, Len(stack) - 1)

\* a call can be made by the program at top level, or by a callback that is
\* running
CanCall == IF Len(stack) = 0 THEN TRUE ELSE Top.pc = "cb" /\ calls < MaxCalls

\* the count of calls after one more call, made from where the program is
Counted == IF Len(stack) = 0 THEN 0 ELSE calls + 1

\* the count of calls after the topmost activation has ended
Ended == IF Len(stack) = 1 THEN 0 ELSE calls

\* the stack after the list of key has changed (c removed, when rem)
Touched(st, key, changed, rem, c) ==
    [j \in 1..Len(st) |->
        IF st[j].key = key /\ changed
        THEN [st[j] EXCEPT !.mutated = TRUE,
                           !.removed = IF rem THEN @ \cup {c} ELSE @]
        ELSE st[j]]

\* the record of a call or step: its arguments (for invoke: the callback a2,
\* the `this` it is applied to and its arguments), the error it raised, where
\* the error was raised, and whether the lookup found something
Call(op, a1, a2, ctx, args, err, origin, found) ==
    [op |-> op, a1 |-> a1, a2 |-> a2, ctx |-> ctx, args |-> args, err |-> err,
     origin |-> origin, found |-> found]

\* ---- history: the order in which the current subscriptions were made

RanksOf(order, key) == {r \in order : r[1] = key}

Subscribed(order, key, c) == \E r \in order : r[1] = key /\ r[2] = c

OrderAfterSubscribe(order, eventName, callback) ==
    IF /\ eventName.t = "string"
       /\ callback.t = "function"
       /\ eventName.v \notin DOMAIN ObjectPrototype
       /\ ~Subscribed(order, eventName.v, callback)
    THEN order \cup {<<eventName.v, callback, Cardinality(RanksOf(order, eventName.v)) + 1>>}
    ELSE order

OrderAfterUnsubscribe(order, eventName, callback) ==
    IF Subscribed(order, eventName.v, callback)
    THEN LET gone == CHOOSE r \in order : r[1] = eventName.v /\ r[2] = callback
         IN  {IF r[1] = eventName.v /\ r[3] > gone[3]
              THEN <<r[1], r[2], r[3] - 1>> ELSE r : r \in order \ {gone}}
    ELSE order

\* ---- the operations

Subscribe(eventName, callback) ==
    /\ CanCall
    /\ LET eff == SubscribeEffect(eventSubscribers, eventName, callback)
       IN  /\ eventSubscribers' = eff.es
           /\ stack' = Touched(stack, eventName.v,
                               eff.err = "none" /\ ~eff.found, FALSE, callback)
           /\ last' = Call("subscribe", eventName, callback, Undefined, <<>>, eff.err,
                           IF eff.err = "none" THEN "none" ELSE "subscribe",
                           eff.found)
    /\ calls' = Counted
    /\ subscribedOrder' = OrderAfterSubscribe(subscribedOrder, eventName, callback)
    /\ UNCHANGED <<pvars, fvars, lvars>>

Unsubscribe(eventName, callback) ==
    /\ CanCall
    /\ LET eff == UnsubscribeEffect(eventSubscribers, eventName, callback)
       IN  /\ eventSubscribers' = eff.es
           /\ stack' = Touched(stack, eventName.v, eff.found, TRUE, callback)
           /\ last' = Call("unsubscribe", eventName, callback, Undefined, <<>>, eff.err,
                           IF eff.err = "none" THEN "none" ELSE "unsubscribe",
                           eff.found)
    /\ calls' = Counted
    /\ subscribedOrder' = OrderAfterUnsubscribe(subscribedOrder, eventName, callback)
    /\ UNCHANGED <<pvars, fvars, lvars>>

\* trigger, up to the loop: with nothing found under the name it returns at
\* once
Trigger(eventName, data, context) ==
    /\ CanCall
    /\ Len(stack) > 0 => (data \in NestedData /\ context \in NestedContexts)
    /\ calls' = Counted
    /\ LET frame == NewFrame(eventSubscribers, eventName, data, context)
       IN  IF Lookup(eventSubscribers, eventName.v).kind = "undefined"
           THEN /\ stack' = stack
                /\ last' = Call("trigger_return", eventName, Undefined, context,
                                <<>>, "none", "none", FALSE)
           ELSE /\ stack' = Append(stack, frame)
                /\ last' = Call("trigger", eventName, Undefined, context,
                                <<>>, "none", "none", TRUE)
    /\ UNCHANGED <<eventSubscribers, subscribedOrder, pvars, fvars, lvars>>

\* the loop of trigger: subscribers[i].apply(context, data) with a function
\* at subscribers[i]
TriggerInvoke ==
    /\ Len(stack) > 0
    /\ Top.pc = "loop"
    /\ Top.i < Top.iMax
    /\ Element(eventSubscribers, Top.key, Top.i).t = "function"
    /\ LET f == Element(eventSubscribers, Top.key, Top.i)
       IN  /\ stack' = [stack EXCEPT ![Len(stack)].pc = "cb",
                                     ![Len(stack)].invoked = Append(@, f)]
           /\ last' = Call("invoke", Str(Top.key), f, Top.this, Top.args,
                           "none", "none", TRUE)
    /\ calls' = calls
    /\ UNCHANGED <<eventSubscribers, subscribedOrder, pvars, fvars, lvars>>

\* the loop of trigger: subscribers[i] is no function, so `.apply` of it
\* raises a TypeError inside trigger
TriggerFail ==
    /\ Len(stack) > 0
    /\ Top.pc = "loop"
    /\ Top.i < Top.iMax
    /\ Element(eventSubscribers, Top.key, Top.i).t # "function"
    /\ stack' = Rest
    /\ last' = Call("trigger_return", Str(Top.key), Undefined, Top.context,
                    <<>>, "TypeError", "trigger", TRUE)
    /\ calls' = Ended
    /\ UNCHANGED <<eventSubscribers, subscribedOrder, pvars, fvars, lvars>>

\* the loop of trigger ends: i < iMax is false
TriggerReturn ==
    /\ Len(stack) > 0
    /\ Top.pc = "loop"
    /\ ~(Top.i < Top.iMax)
    /\ stack' = Rest
    /\ last' = Call("trigger_return", Str(Top.key), Undefined, Top.context,
                    <<>>, "none", "none", TRUE)
    /\ calls' = Ended
    /\ UNCHANGED <<eventSubscribers, subscribedOrder, pvars, fvars, lvars>>

\* the invoked callback returns: i++
CallbackReturn ==
    /\ Len(stack) > 0
    /\ Top.pc = "cb"
    /\ stack' = [stack EXCEPT ![Len(stack)].pc = "loop",
                              ![Len(stack)].i = @ + 1]
    /\ last' = Call("callback_return", Str(Top.key), Undefined, Top.this,
                    <<>>, "none", "none", TRUE)
    /\ calls' = calls
    /\ UNCHANGED <<eventSubscribers, subscribedOrder, pvars, fvars, lvars>>

\* the invoked callback raises an error: trigger does not catch it
CallbackThrow ==
    /\ Len(stack) > 0
    /\ Top.pc = "cb"
    /\ stack' = Rest
    /\ last' = Call("trigger_return", Str(Top.key), Undefined, Top.context,
                    <<>>, "Thrown", "subscriber", TRUE)
    /\ calls' = Ended
    /\ UNCHANGED <<eventSubscribers, subscribedOrder, pvars, fvars, lvars>>

\* ------------------------------------------------------------- strings

\* a string is the sequence of its characters

RECURSIVE Digits(_)
\* ToString of a non-negative integer: its decimal digits
Digits(n) ==
    LET d == <<"0", "1", "2", "3", "4", "5", "6", "7", "8", "9">>[(n % 10) + 1]
    IN  IF n < 10 THEN <<d>> ELSE Digits(n \div 10) \o <<d>>

\* a number value and a string value, as pad and stringFormat receive them
NumberValue(n) == [t |-> "number", n |-> n, s |-> <<>>]

StringValue(s) == [t |-> "string", n |-> 0, s |-> s]

\* "" + x
ToChars(x) == IF x.t = "number" THEN Digits(x.n) ELSE x.s

\* "" + b, for a boolean b
BoolChars(b) == IF b THEN <<"t", "r", "u", "e">> ELSE <<"f", "a", "l", "s", "e">>

Return(value) == [kind |-> "return", value |-> value, error |-> "none"]

Throw(error) == [kind |-> "throw", value |-> <<>>, error |-> error]

\* ------------------------------------------------------------------ pad

\* a JavaScript number that is an integer, or NaN
JsNum(n) == [nan |-> FALSE, n |-> n]

NaN == [nan |-> TRUE, n |-> 0]

Minus(a, b) == IF a.nan \/ b.nan THEN NaN ELSE JsNum(a.n - b.n)

Plus(a, b) == IF a.nan \/ b.nan THEN NaN ELSE JsNum(a.n + b.n)

\* the property `name` of a string, as a number: a string has `length`; any
\* other name (`Length`) reads undefined, which is NaN in arithmetic
PropertyAsNumber(s, name) == IF name = "length" THEN JsNum(Len(s)) ELSE NaN

\* new Array(len): a RangeError unless len is an integer from 0 to 2^32 - 1
\* (the lengths of the model stay far below the upper limit)
NewArray(len) ==
    IF len.nan \/ len.n < 0
    THEN [kind |-> "throw", length |-> 0]
    ELSE [kind |-> "return", length |-> len.n]

RECURSIVE Repeat(_, _)
Repeat(s, n) == IF n <= 0 THEN <<>> ELSE s \o Repeat(s, n - 1)

\* Array.prototype.join of an array of `length` holes
Join(length, separator) == Repeat(separator, length - 1)

\* pad(str, padChar, desiredLength, padEnd), desiredLength an integer
Pad(str, padChar, desiredLength, padEnd) ==
    LET s == ToChars(str)
        c == ToChars(padChar)
    IN  IF Len(c) # 1 THEN Throw("Error")
        ELSE IF Len(s) >= desiredLength THEN Return(s)
        ELSE LET array == NewArray(Plus(Minus(JsNum(desiredLength),
                                              PropertyAsNumber(s, "Length")),
                                        JsNum(1)))
                 padding == Join(array.length, c)
             IN  IF array.kind = "throw" THEN Throw("RangeError")
                 ELSE Return(IF padEnd THEN s \o BoolChars(padEnd)
                                       ELSE BoolChars(padEnd) \o s)

\* --------------------------------------------------------- stringFormat

\* '{' + (i - 1) + '}'
Placeholder(n) == <<"{">> \o Digits(n) \o <<"}">>

StartsWith(s, at, pattern) ==
    /\ at + Len(pattern) - 1 <= Len(s)
    /\ \A j \in 1..Len(pattern) : s[at + j - 1] = pattern[j]

\* String.prototype.indexOf, 1-based, 0 when absent
Find(s, pattern) ==
    IF \E at \in 1..Len(s) : StartsWith(s, at, pattern)
    THEN CHOOSE at \in 1..Len(s) :
            /\ StartsWith(s, at, pattern)
            /\ \A b \in 1..(at - 1) : ~StartsWith(s, b, pattern)
    ELSE 0

RECURSIVE Substitution(_, _, _, _)
\* the text String.prototype.replace inserts for a replacement string: $$ is
\* a dollar sign, $& the matched text and $' the text after the match (a
\* string pattern has no groups for $1..$9; the pattern for the text before
\* the match is not among the characters of the model)
Substitution(replacement, matched, before, after) ==
    IF Len(replacement) = 0 THEN <<>>
    ELSE IF replacement[1] = "$" /\ Len(replacement) >= 2
                /\ replacement[2] \in {"$", "&", "'"}
         THEN (CASE replacement[2] = "$" -> <<"$">>
                 [] replacement[2] = "&" -> matched
                 [] OTHER -> after)
              \o Substitution(SubSeq(replacement, 3, Len(replacement)),
                              matched, before, after)
         ELSE <<replacement[1]>>
              \o Substitution(SubSeq(replacement, 2, Len(replacement)),
                              matched, before, after)

\* s.replace(pattern, replacement) with a string pattern: the first
\* occurrence only
Replace(s, pattern, replacement) ==
    LET at == Find(s, pattern)
        before == SubSeq(s, 1, at - 1)
        after == SubSeq(s, at + Len(pattern), Len(s))
    IN  IF at = 0 THEN s
        ELSE before \o Substitution(replacement, pattern, before, after) \o after

RECURSIVE FormatLoop(_, _, _)
\* for (i = 1; i < arguments.length; i++) outStr = outStr.replace(...);
\* data[i] is arguments[i]
FormatLoop(outStr, data, i) ==
    IF i > Len(data) THEN outStr
    ELSE FormatLoop(Replace(outStr, Placeholder(i - 1), data[i]), data, i + 1)

\* stringFormat(formatString, data[1], ..., data[k])
StringFormat(formatString, data) ==
    IF formatString.t # "string" THEN Throw("TypeError")
    ELSE IF Len(data) = 0 THEN Return(formatString.s)
    ELSE Return(FormatLoop(formatString.s, data, 1))

\* --------------------------------------------------------------- Logger

\* "{0} ({1}:{2}:{3}.{4}) [{5}]"
PrefixFormat ==
    <<"{", "0", "}", " ", "(", "{", "1", "}", ":", "{", "2", "}", ":",
      "{", "3", "}", ".", "{", "4", "}", ")", " ", "[", "{", "5", "}", "]">>

\* getPrefix(level, tag) at the time `now` that new Date() reads: an error
\* that pad raises is not caught
GetPrefix(level, tag, now) ==
    LET hours == Pad(NumberValue(now.h), StringValue(<<"0">>), 2, FALSE)
        minutes == Pad(NumberValue(now.m), StringValue(<<"0">>), 2, FALSE)
        seconds == Pad(NumberValue(now.s), StringValue(<<"0">>), 2, FALSE)
        millis == Pad(NumberValue(now.ms), StringValue(<<"0">>), 3, FALSE)
    IN  CASE hours.kind = "throw" -> hours
          [] minutes.kind = "throw" -> minutes
          [] seconds.kind = "throw" -> seconds
          [] millis.kind = "throw" -> millis
          [] OTHER -> StringFormat(StringValue(PrefixFormat),
                                   <<level, hours.value, minutes.value,
                                     seconds.value, millis.value, tag>>)

\* the methods of a console that Logger uses
Methods == {"log", "debug", "info", "warn", "error"}

\* new Logger(tag) with the global `console`: this.console = console || {}
NewLogger(tag, console) ==
    [tag |-> tag, console |-> IF console.present THEN console.methods ELSE {}]

\* the body the five methods share: the method of the console they test and
\* apply, and the severity letter they pass to getPrefix. It gives the error
\* raised and the calls of console methods made.
LoggerCall(method, letter, self, args, now) ==
    IF Len(args) < 1 THEN [err |-> "none", sent |-> <<>>]
    ELSE IF method \notin self.console THEN [err |-> "none", sent |-> <<>>]
    ELSE LET prefix == GetPrefix(<<letter>>, self.tag, now)
         IN  IF prefix.kind = "throw"
             THEN [err |-> prefix.error, sent |-> <<>>]
             ELSE [err |-> "none",
                   sent |-> <<[method |-> method, args |-> <<prefix.value>> \o args]>>]

Logged(method, args, now, did) ==
    [method |-> method, args |-> args, now |-> now, err |-> did.err, sent |-> did.sent]

\* Logger.prototype.log
Log(args, now) ==
    /\ logged' = Logged("log", args, now, LoggerCall("log", "L", logger, args, now))
    /\ UNCHANGED <<dvars, pvars, fvars, logger>>

\* Logger.prototype.debug
Debug(args, now) ==
    /\ logged' = Logged("debug", args, now, LoggerCall("debug", "D", logger, args, now))
    /\ UNCHANGED <<dvars, pvars, fvars, logger>>

\* Logger.prototype.info
Info(args, now) ==
    /\ logged' = Logged("info", args, now, LoggerCall("info", "I", logger, args, now))
    /\ UNCHANGED <<dvars, pvars, fvars, logger>>

\* Logger.prototype.warn
Warn(args, now) ==
    /\ logged' = Logged("warn", args, now, LoggerCall("warn", "W", logger, args, now))
    /\ UNCHANGED <<dvars, pvars, fvars, logger>>

\* Logger.prototype.error
Error(args, now) ==
    /\ logged' = Logged("error", args, now, LoggerCall("error", "E", logger, args, now))
    /\ UNCHANGED <<dvars, pvars, fvars, logger>>

\* ---- the calls of the pure functions

Pending == [kind |-> "pending", value |-> <<>>, error |-> "none"]

CallPad ==
    /\ padResult = Pending
    /\ padResult' = Pad(padCall.str, padCall.padChar, padCall.desiredLength,
                        padCall.padEnd)
    /\ UNCHANGED <<dvars, padCall, fvars, lvars>>

CallStringFormat ==
    /\ fmtResult = Pending
    /\ fmtResult' = StringFormat(fmtCall.formatString, fmtCall.data)
    /\ UNCHANGED <<dvars, pvars, fmtCall, lvars>>

\* ---- inputs

\* the strings of at most n characters of an alphabet
StringsUpTo(alphabet, n) == UNION {[1..k -> alphabet] : k \in 0..n}

PadCalls ==
    [str : {StringValue(s) : s \in StringsUpTo({"5", "x"}, MaxStrLen)}
               \cup {NumberValue(5), NumberValue(12), NumberValue(500)},
     padChar : {StringValue(<<"0">>), StringValue(<<"0", "0">>), StringValue(<<>>),
                NumberValue(7)},
     desiredLength : (-1)..MaxDesired,
     padEnd : BOOLEAN]

Pieces == {<<"a">>, <<"{", "0", "}">>, <<"{", "1", "}">>}

RECURSIVE Templates(_)
Templates(n) ==
    IF n = 0 THEN {<<>>}
    ELSE Templates(n - 1) \cup {t \o q : t \in Templates(n - 1), q \in Pieces}

DataTexts == {<<"X">>, <<"{", "1", "}">>, <<"$", "&">>}

FormatCalls ==
    [formatString : {StringValue(t) : t \in Templates(MaxPieces)} \cup {NumberValue(42)},
     data : StringsUpTo(DataTexts, MaxData)]

Tags == {<<"M">>, <<"U", "I">>}

Consoles ==
    {[present |-> FALSE, methods |-> {}],
     [present |-> TRUE, methods |-> {}],
     [present |-> TRUE, methods |-> Methods \ {"debug"}],
     [present |-> TRUE, methods |-> Methods]}

Times == [h : {9, 12}, m : {5, 34}, s : {7, 56}, ms : {45, 123}]

Messages == {<<"m">>, <<"n">>}

MessageLists == StringsUpTo(Messages, MaxMessages)

NoCall ==
    [str |-> StringValue(<<>>), padChar |-> StringValue(<<>>), desiredLength |-> 0,
     padEnd |-> FALSE]

NoFormat == [formatString |-> StringValue(<<>>), data |-> <<>>]

NoLogger == [tag |-> <<>>, console |-> {}]

NotLogged ==
    [method |-> "none", args |-> <<>>, now |-> [h |-> 0, m |-> 0, s |-> 0, ms |-> 0],
     err |-> "none", sent |-> <<>>]

InitDispatcher ==
    /\ eventSubscribers = [k \in {} |-> <<>>]
    /\ stack = <<>>
    /\ calls = 0
    /\ last = Call("new", Undefined, Undefined, Undefined, <<>>, "none", "none", FALSE)
    /\ subscribedOrder = {}

IdlePad == padCall = NoCall /\ padResult = Pending

IdleFormat == fmtCall = NoFormat /\ fmtResult = Pending

IdleLogger == logger = NoLogger /\ logged = NotLogged


\* a new EventDispatcher
Init == InitDispatcher /\ IdlePad /\ IdleFormat /\ IdleLogger

Next ==
    \/ \E n \in EventNames, c \in CallbackValues : Subscribe(n, c)
    \/ \E n \in EventNames, c \in CallbackValues : Unsubscribe(n, c)
    \/ \E n \in EventNames, d \in DataValues, x \in Contexts : Trigger(n, d, x)
    \/ TriggerInvoke
    \/ TriggerFail
    \/ TriggerReturn
    \/ CallbackReturn
    \/ CallbackThrow

Spec == Init /\ [][Next]_vars

\* pad, called once with each of the inputs
InitPad ==
    /\ InitDispatcher /\ IdleFormat /\ IdleLogger
    /\ padCall \in PadCalls
    /\ padResult = Pending

NextPad == CallPad

SpecPad == InitPad /\ [][NextPad]_vars

\* stringFormat, called once with each of the inputs
InitFormat ==
    /\ InitDispatcher /\ IdlePad /\ IdleLogger
    /\ fmtCall \in FormatCalls
    /\ fmtResult = Pending

NextFormat == CallStringFormat

SpecFormat == InitFormat /\ [][NextFormat]_vars

\* a Logger of each tag and console, its methods called at any time
InitLogger ==
    /\ InitDispatcher /\ IdlePad /\ IdleFormat
    /\ logger \in {NewLogger(tag, console) : tag \in Tags, console \in Consoles}
    /\ logged = NotLogged

NextLogger ==
    \/ \E args \in MessageLists, now \in Times : Log(args, now)
    \/ \E args \in MessageLists, now \in Times : Debug(args, now)
    \/ \E args \in MessageLists, now \in Times : Info(args, now)
    \/ \E args \in MessageLists, now \in Times : Warn(args, now)
    \/ \E args \in MessageLists, now \in Times : Error(args, now)

SpecLogger == InitLogger /\ [][NextLogger]_vars

\* ------------------------------------------------- EventDispatcher claims

Count(seq, x) == Cardinality({j \in 1..Len(seq) : seq[j] = x})

Range(seq) == {seq[j] : j \in 1..Len(seq)}

\* the loop of the topmost trigger call is over: the call returns with what
\* it has invoked so far
Returning == Len(stack) > 0 /\ Top.pc = "loop" /\ ~(Top.i < Top.iMax)

\* the topmost trigger call ends here, by returning or by raising an error
\* itself
Ending ==
    /\ Len(stack) > 0
    /\ Top.pc = "loop"
    /\ \/ ~(Top.i < Top.iMax)
       \/ Element(eventSubscribers, Top.key, Top.i).t # "function"

\* the callbacks subscribed to key, in the order their subscriptions were made
InOrder(order, key) ==
    [j \in 1..Cardinality(RanksOf(order, key)) |->
        (CHOOSE r \in order : r[1] = key /\ r[3] = j)[2]]

\* C1: in every reachable state, also while a trigger is running, a callback
\* appears at most once in the list of each event name; and a trigger call
\* whose callbacks change no subscription returns having invoked each
\* callback of the list exactly once.
Thm_C1 ==
    /\ \A k \in DOMAIN eventSubscribers :
          \A c \in Range(eventSubscribers[k]) : Count(eventSubscribers[k], c) = 1
    /\ (Returning /\ ~Top.mutated /\ Top.key \in DOMAIN eventSubscribers) =>
          \A c \in Range(eventSubscribers[Top.key]) : Count(Top.invoked, c) = 1

\* C1 witness: subscribe has just returned for a callback that it found
\* subscribed already, in a list of three callbacks
Wit_C1 ==
    /\ last.op = "subscribe"
    /\ last.err = "none"
    /\ last.found
    /\ Len(eventSubscribers[last.a1.v]) = 3

\* C2: a trigger call whose callbacks neither throw nor change subscriptions
\* returns having invoked exactly the callbacks subscribed to the name, each
\* once, in the order in which their current subscriptions were made; a
\* trigger that finds nothing under the name has no subscription to serve.
Thm_C2 ==
    /\ (Returning /\ ~Top.mutated) =>
          Top.invoked = InOrder(subscribedOrder, Top.key)
    /\ (last.op = "trigger_return" /\ ~last.found) =>
          RanksOf(subscribedOrder, last.a1.v) = {}

\* C2 witness: a trigger call whose callbacks changed no subscription
\* returns having invoked three callbacks, B first and A last
Wit_C2 ==
    /\ Returning
    /\ ~Top.mutated
    /\ Len(Top.invoked) = 3
    /\ Top.invoked[1] = Fn("B")
    /\ Top.invoked[3] = Fn("A")

\* C3 (as claimed): a trigger call that ends with an error ends with the
\* error an invoked subscriber raised
Cex_C3 ==
    (last.op = "trigger_return" /\ last.err # "none") => last.origin = "subscriber"

\* C4 (as claimed): unsubscribe raises no error, whatever its arguments
Cex_C4 ==
    last.op = "unsubscribe" => last.err = "none"

\* C5 (as claimed): every invoked subscriber is applied to the context that
\* was supplied to trigger, and to the dispatcher only when none was
Cex_C5 ==
    last.op = "invoke" =>
        last.ctx = (IF Top.context = Undefined THEN Self ELSE Top.context)

\* C8: subscribe with an event name that is no string, or a callback that is
\* no function, raises a TypeError and leaves the subscriber lists, and any
\* trigger that is running, as they were.
Thm_C8 ==
    [][(last'.op = "subscribe" /\ (last'.a1.t # "string" \/ last'.a2.t # "function"))
          => (/\ last'.err = "TypeError"
              /\ eventSubscribers' = eventSubscribers
              /\ stack' = stack
              /\ subscribedOrder' = subscribedOrder)]_vars

\* C8 witness: subscribe("e", 123) has raised its TypeError while two
\* callbacks are subscribed to "e"
Wit_C8 ==
    /\ last.op = "subscribe"
    /\ last.a1 = Str("e")
    /\ last.a2 = Num("123")
    /\ last.err = "TypeError"
    /\ "e" \in DOMAIN eventSubscribers
    /\ Len(eventSubscribers["e"]) = 2

\* C10 (as claimed): when a callback unsubscribed a callback from the event
\* while its trigger ran, the trigger call ends having invoked every callback
\* that was subscribed when it started and was not unsubscribed exactly once,
\* and no callback twice
Cex_C10 ==
    (Ending /\ Top.removed # {}) =>
        /\ \A c \in Range(Top.start) \ Top.removed : Count(Top.invoked, c) = 1
        /\ \A c \in Range(Top.invoked) : Count(Top.invoked, c) = 1

\* -------------------------------- pad, stringFormat and Logger claims

\* pad as its documentation describes it: the padding before the string, or
\* after it with padEnd
PadExpected(str, padChar, desiredLength, padEnd) ==
    LET s == ToChars(str)
        c == ToChars(padChar)
    IN  IF Len(c) # 1 THEN Throw("Error")
        ELSE IF Len(s) >= desiredLength THEN Return(s)
        ELSE LET padding == Repeat(c, desiredLength - Len(s))
             IN  Return(IF padEnd THEN s \o padding ELSE padding \o s)

\* C6 (as claimed): for a string and a padChar that is a string of one
\* character, pad returns the string as it is when it has desiredLength
\* characters or more, and otherwise the string with copies of padChar
\* before it (after it, with padEnd) up to exactly desiredLength characters
Cex_C6 ==
    (/\ padResult # Pending
     /\ padCall.str.t = "string"
     /\ padCall.padChar.t = "string"
     /\ Len(padCall.padChar.s) = 1) =>
        padResult = PadExpected(padCall.str, padCall.padChar,
                                padCall.desiredLength, padCall.padEnd)

RECURSIVE FormatExpected(_, _)
\* the format string with every placeholder {i} that has an argument
\* replaced by the argument's text, in one pass over the format string
FormatExpected(template, data) ==
    IF Len(template) = 0 THEN <<>>
    ELSE IF \E i \in 1..Len(data) : StartsWith(template, 1, Placeholder(i - 1))
    THEN LET i == CHOOSE i \in 1..Len(data) : StartsWith(template, 1, Placeholder(i - 1))
         IN  data[i] \o FormatExpected(SubSeq(template, Len(Placeholder(i - 1)) + 1,
                                              Len(template)), data)
    ELSE <<template[1]>> \o FormatExpected(SubSeq(template, 2, Len(template)), data)

\* C7 (as claimed): stringFormat of a string returns it with every
\* placeholder that has an argument replaced by the argument's text, the
\* inserted text never being scanned again
Cex_C7 ==
    (fmtResult # Pending /\ fmtCall.formatString.t = "string") =>
        fmtResult = Return(FormatExpected(fmtCall.formatString.s, fmtCall.data))

\* the decimal digits of n, with zeros before them up to width characters
ZeroPadded(n, width) == Repeat(<<"0">>, width - Len(Digits(n))) \o Digits(n)

SeverityLetter ==
    [log |-> "L", debug |-> "D", info |-> "I", warn |-> "W", error |-> "E"]

\* "<severity letter> (HH:MM:SS.mmm) [tag]"
PrefixExpected(method, tag, now) ==
    <<SeverityLetter[method], " ", "(">> \o ZeroPadded(now.h, 2) \o <<":">>
        \o ZeroPadded(now.m, 2) \o <<":">> \o ZeroPadded(now.s, 2) \o <<".">>
        \o ZeroPadded(now.ms, 3) \o <<")", " ", "[">> \o tag \o <<"]">>

\* C9 (as claimed): a Logger method called with arguments, on a console that
\* has the matching method, calls that method once with the prefix and then
\* its arguments; with no arguments or without the method it calls nothing;
\* and it raises no error either way, whatever the time of day
Cex_C9 ==
    logged.method \in Methods =>
        /\ logged.err = "none"
        /\ logged.sent =
              IF Len(logged.args) >= 1 /\ logged.method \in logger.console
              THEN <<[method |-> logged.method,
                      args |-> <<PrefixExpected(logged.method, logger.tag, logged.now)>>
                                  \o logged.args]>>
              ELSE <<>>

====
